---- MODULE Spec2Model ----
(***************************************************************************)
(* MessengerWorldRunner (parlai/chat_service/services/messenger/           *)
(* world_runner.py): a registry of launched tasks, a bounded thread pool,  *)
(* the task-world loop (_run_world), the overworld loop (_world_function)  *)
(* and the cooperative shutdown.  One caller thread issues the launch and  *)
(* shutdown calls; every submitted job runs on a pool worker and           *)
(* interleaves with the caller and with the other jobs at each line that   *)
(* reads or writes shared state or calls a collaborator.                   *)
(***************************************************************************)
EXTENDS Integers, Sequences, FiniteSets, TLC

\* ---- bounds of the model ----
MaxJobs == 2          \* launch calls the caller makes
MaxWorkers == 2       \* max_workers is drawn from 1..MaxWorkers
MaxCycles == 1        \* non-null routes one overworld loop handles
MaxShutdowns == 2     \* shutdown() calls the caller makes

Jobs == 1..MaxJobs
None == "None"
Unbound == "unbound"            \* a local variable never assigned

\* ---- inputs of the launch calls ----
NameSeq == << "t1", "t2" >>
TaskNames == {NameSeq[i] : i \in 1..Len(NameSeq)}
KnownWorlds == {"plain", "onboard", "over"}    \* names the world module defines
TaskWorldNames == {"plain", "nokind"}
OverworldNames == {"over", "nokind"}
StepVals == {"v1", "v2"}        \* non-None values a task world's parley() returns
StepResults == StepVals \cup {None}     \* parley() may also return None
Routes == {"", "a", "b"}        \* non-None values an overworld's parley() returns
\* onboard_map arguments: "a" maps to an onboarding world, "b" is a key whose
\* value is None (a world without onboarding), "" is not a key.
OnboardMaps == << [a |-> "onboard", b |-> None] >>
MapIds == 1..Len(OnboardMaps)

VARIABLES
    system_done,        \* self.system_done
    max_workers,        \* ThreadPoolExecutor(max_workers=...)
    executor_shutdown,  \* the executor's _shutdown flag
    work_queue,         \* the executor's queue of submitted, unstarted jobs
    tasks,              \* self.tasks: task name -> TaskState (0: no entry)
    task_order,         \* the keys of self.tasks in insertion order
    task_world,         \* TaskState.world: -1 is None, else the session index
    task_future,        \* TaskState.future is set
    launched,           \* launch calls made so far; call n creates TaskState n
    args,               \* the arguments of launch call n
    fut,                \* state of the Future of job n
    res,                \* the Future's result
    fail,               \* the kind of exception the Future holds
    pc,                 \* position of job n in its closure
    loc,                \* job n's locals: _run_world's ret_val, _world_function's
                        \* world_type, and whether the onboarding call is active
    active,             \* agent_state.get_active_agent() of job n's agent
    onboard_data,       \* agent_state.onboard_data
    main,               \* the caller thread: operation in progress, cursor
    shut,               \* history of the shutdown() calls
    rel,                \* per session: world.shutdown() calls, by whom
    cycles,             \* non-null routes job n has handled
    hist                \* per job: what its loop has done (history)

vars == << system_done, max_workers, executor_shutdown, work_queue, tasks,
           task_order, task_world, task_future, launched, args, fut, res, fail,
           pc, loc, active, onboard_data, main, shut, rel,
           cycles, hist >>

registryVars == << tasks, task_order, task_future, launched, args >>
callerVars == << main, shut >>
poolVars == << max_workers, executor_shutdown, work_queue >>
loopVars == << loc, onboard_data, cycles >>

NoArgs == [kind |-> "none", name |-> None, world |-> None, omap |-> 0]
NoLoc == [ret_val |-> Unbound, world_type |-> Unbound, sub |-> FALSE]
NoRes == [ret |-> Unbound, data |-> Unbound]
NoHist == [sawDone |-> FALSE,    \* episode_done() returned true at the loop's last test
           onbRuns |-> 0,        \* onboarding loops finished in this cycle
           retOver |-> 0,        \* return_overworld() calls in this cycle
           poolArg |-> Unbound,  \* route passed to add_agent_to_pool in this cycle
           lastStep |-> Unbound, \* what the running loop's last parley() returned
           hadData |-> Unbound,  \* hasattr(world, "data") as the last release read it
           lateStart |-> FALSE]  \* the closure started with the stop flag set
NoRel == [c \in 0..MaxCycles |-> [loop |-> 0, pass |-> 0]]

Init ==
    /\ system_done = FALSE
    /\ max_workers \in 1..MaxWorkers
    /\ executor_shutdown = FALSE
    /\ work_queue = << >>
    /\ tasks = [n \in TaskNames |-> 0]
    /\ task_order = << >>
    /\ task_world = [j \in Jobs |-> -1]
    /\ task_future = [j \in Jobs |-> FALSE]
    /\ launched = 0
    /\ args = [j \in Jobs |-> NoArgs]
    /\ fut = [j \in Jobs |-> "none"]
    /\ res = [j \in Jobs |-> NoRes]
    /\ fail = [j \in Jobs |-> "none"]
    /\ pc = [j \in Jobs |-> "none"]
    /\ loc = [j \in Jobs |-> NoLoc]
    /\ active = [j \in Jobs |-> "over"]
    /\ onboard_data = [j \in Jobs |-> Unbound]
    /\ main = [pc |-> "idle", idx |-> 0]
    /\ shut = [calls |-> 0, returned |-> 0, last |-> "none"]
    /\ rel = [j \in Jobs |-> NoRel]
    /\ cycles = [j \in Jobs |-> 0]
    /\ hist = [j \in Jobs |-> NoHist]

\* ---- helpers ----
Min(a, b) == IF a < b THEN a ELSE b
InSeq(x, s) == \E i \in 1..Len(s) : s[i] = x
Truthy(v) == v # None /\ v # ""

\* dict.get(key): the value, or None when the key is absent
DictGet(m, k) == IF k \in DOMAIN m THEN m[k] ELSE None

\* a payload read without testing for the attribute
WorldDataAlways(has_data) == "data"

\* world.data if hasattr(world, "data") else {}
WorldData(has_data) == IF has_data THEN "data" ELSE "empty"

Running == {j \in Jobs : fut[j] = "running"}
Unfinished == {j \in Jobs : fut[j] \in {"pending", "running"}}

\* ---- the launch calls (caller thread) ----

\* task names are opaque keys: a launch reuses a registered name or takes the
\* next unused one
NameChoices ==
    {NameSeq[i] : i \in 1..Min(Len(task_order) + 1, Len(NameSeq))}

\* self.tasks[task_name] = task
Register(j, a) ==
    /\ launched' = j
    /\ args' = [args EXCEPT ![j] = a]
    /\ tasks' = [tasks EXCEPT ![a.name] = j]
    /\ task_order' = IF InSeq(a.name, task_order) THEN task_order
                     ELSE Append(task_order, a.name)

\* a submit that also cancels the queued jobs launched under the same name
SubmitCancelsNamesake(j, first) ==
    IF executor_shutdown
    THEN UNCHANGED << work_queue, fut, pc, task_future >>
    ELSE LET old == {k \in Jobs : k # j /\ args[k].name = args'[j].name
                                  /\ fut[k] = "pending"} IN
         /\ work_queue' = Append(SelectSeq(work_queue, LAMBDA k : k \notin old), j)
         /\ fut' = [k \in Jobs |-> IF k = j THEN "pending"
                                   ELSE IF k \in old THEN "cancelled" ELSE fut[k]]
         /\ pc' = [k \in Jobs |-> IF k = j THEN first
                                  ELSE IF k \in old THEN "done" ELSE pc[k]]
         /\ task_future' = [task_future EXCEPT ![j] = TRUE]

\* fut = self.executor.submit(fn); task.future = fut; return fut
\* submit raises RuntimeError once the executor has been shut down
Submit(j, first) ==
    IF executor_shutdown
    THEN UNCHANGED << work_queue, fut, pc, task_future >>
    ELSE /\ work_queue' = Append(work_queue, j)
         /\ fut' = [fut EXCEPT ![j] = "pending"]
         /\ pc' = [pc EXCEPT ![j] = first]
         /\ task_future' = [task_future EXCEPT ![j] = TRUE]

launch_task_world(task_name, world_name) ==
    /\ main.pc = "idle"
    /\ launched < MaxJobs
    /\ LET j == launched + 1 IN
       /\ Register(j, [kind |-> "task", name |-> task_name,
                       world |-> world_name, omap |-> 0])
       /\ Submit(j, "construct")
    /\ UNCHANGED << system_done, max_workers, executor_shutdown, task_world,
                    res, fail, loopVars, active, callerVars, rel, hist >>

\* manager.get_agent_state(...) raises: the call ends after registering
launch_overworld_fails(task_name, overworld_name, m) ==
    /\ main.pc = "idle"
    /\ launched < MaxJobs
    /\ Register(launched + 1, [kind |-> "over", name |-> task_name,
                               world |-> overworld_name, omap |-> m])
    /\ UNCHANGED << system_done, poolVars, task_world, task_future, fut, pc,
                    res, fail, loopVars, active, callerVars, rel, hist >>

launch_overworld(task_name, overworld_name, m) ==
    /\ main.pc = "idle"
    /\ launched < MaxJobs
    /\ LET j == launched + 1 IN
       /\ Register(j, [kind |-> "over", name |-> task_name,
                       world |-> overworld_name, omap |-> m])
       /\ Submit(j, "oconstruct")
    /\ UNCHANGED << system_done, max_workers, executor_shutdown, task_world,
                    res, fail, loopVars, active, callerVars, rel, hist >>

\* ---- the worker pool ----

\* a worker takes the oldest queued job whatever the number running
StartJobUnbounded ==
    /\ work_queue # << >>
    /\ fut' = [fut EXCEPT ![Head(work_queue)] = "running"]
    /\ work_queue' = Tail(work_queue)

\* a free worker takes the newest queued job
StartJobNewest ==
    /\ work_queue # << >>
    /\ Cardinality(Running) < max_workers
    /\ fut' = [fut EXCEPT ![work_queue[Len(work_queue)]] = "running"]
    /\ work_queue' = SubSeq(work_queue, 1, Len(work_queue) - 1)

\* a free worker (at most max_workers threads exist) takes the oldest job
StartJob ==
    /\ work_queue # << >>
    /\ Cardinality(Running) < max_workers
    /\ fut' = [fut EXCEPT ![Head(work_queue)] = "running"]
    /\ work_queue' = Tail(work_queue)

\* the worker marks the Future running and calls the closure
WorkerStart ==
    /\ StartJob
    /\ hist' = [hist EXCEPT ![Head(work_queue)].lateStart = system_done]
    /\ UNCHANGED << system_done, max_workers, executor_shutdown, registryVars,
                    task_world, res, fail, pc, loopVars, active, callerVars,
                    rel >>

\* ---- outcomes of a job's closure ----
jobFrame == << system_done, poolVars, registryVars, callerVars >>

\* the exception is swallowed and the Future resolves normally
RaiseSwallowed(j, kind) ==
    /\ fut' = [fut EXCEPT ![j] = "result"]
    /\ fail' = [fail EXCEPT ![j] = kind]
    /\ pc' = [pc EXCEPT ![j] = "done"]
    /\ loc' = [loc EXCEPT ![j] = NoLoc]

\* an exception leaves the closure: the worker stores it in the Future
Raise(j, kind) ==
    /\ fut' = [fut EXCEPT ![j] = "exception"]
    /\ fail' = [fail EXCEPT ![j] = kind]
    /\ pc' = [pc EXCEPT ![j] = "done"]
    /\ loc' = [loc EXCEPT ![j] = NoLoc]

\* the closure returns r: the worker stores it in the Future
Return(j, r) ==
    /\ fut' = [fut EXCEPT ![j] = "result"]
    /\ res' = [res EXCEPT ![j] = r]
    /\ pc' = [pc EXCEPT ![j] = "done"]
    /\ loc' = [loc EXCEPT ![j] = NoLoc]

\* ---- _run_world(task, world_name, agents) ----

\* the world_name argument: the launch's, or onboard_map.get(world_type)
WorldName(j) ==
    IF loc[j].sub THEN DictGet(OnboardMaps[args[j].omap], loc[j].world_type)
    ELSE args[j].world

\* the session the call constructs: 0, or the cycle of the onboarding
CurSession(j) == IF loc[j].sub THEN cycles[j] ELSE 0

Released(j, c) == rel[j][c].loop + rel[j][c].pass

\* a loop that keeps its session to itself
StoreWorldNever(tw, j) == tw

\* task.world = world
StoreWorld(tw, j) == [tw EXCEPT ![j] = CurSession(j)]

\* ret_val = None; get_world_fn_attr(...); world = generator(...); task.world = world
RunWorldConstruct(j) ==
    /\ fut[j] = "running"
    /\ pc[j] = "construct"
    /\ \/ /\ WorldName(j) \notin KnownWorlds
          /\ Raise(j, "lookup")
          /\ UNCHANGED task_world
       \/ /\ WorldName(j) \in KnownWorlds
          /\ Raise(j, "construct")
          /\ UNCHANGED task_world
       \/ /\ WorldName(j) \in KnownWorlds
          /\ task_world' = StoreWorld(task_world, j)
          /\ loc' = [loc EXCEPT ![j].ret_val = None]
          /\ pc' = [pc EXCEPT ![j] = "check"]
          /\ UNCHANGED << fut, fail >>
    /\ UNCHANGED << jobFrame, res, active, onboard_data, rel, cycles, hist >>

\* a loop test that leaves out the stop flag, or the episode's end
LoopIgnoresStop(episode_done) == ~episode_done
LoopIgnoresDone(episode_done) == ~system_done

\* while not world.episode_done() and not self.system_done
LoopContinues(episode_done) == ~episode_done /\ ~system_done

RunWorldCheck(j) ==
    /\ fut[j] = "running"
    /\ pc[j] = "check"
    /\ \E episode_done \in BOOLEAN :
          /\ hist' = [hist EXCEPT ![j].sawDone = episode_done]
          /\ pc' = [pc EXCEPT ![j] = IF LoopContinues(episode_done)
                                     THEN "parley" ELSE "release"]
    /\ UNCHANGED << jobFrame, task_world, fut, res, fail, loopVars, active, rel >>

\* ret_val = world.parley(); time.sleep(0.3)
RunWorldParley(j) ==
    /\ fut[j] = "running"
    /\ pc[j] = "parley"
    /\ \/ /\ Raise(j, "step")
          /\ UNCHANGED hist
       \/ /\ \E v \in StepResults :
                /\ loc' = [loc EXCEPT ![j].ret_val = v]
                /\ hist' = [hist EXCEPT ![j].lastStep = v]
          /\ pc' = [pc EXCEPT ![j] = "check"]
          /\ UNCHANGED << fut, fail >>
    /\ UNCHANGED << jobFrame, task_world, res, active, onboard_data, rel,
                    cycles >>

\* the loop ends without releasing the session
LoopReleaseSkipped(r, j) == r

\* world.shutdown() called by the loop on its session
LoopRelease(r, j) == [r EXCEPT ![j][CurSession(j)].loop = @ + 1]

\* world.shutdown(); world_data = ...; return ret_val, world_data
\* in the overworld: _, onboard_data = ...; agent_state.onboard_data = onboard_data
RunWorldRelease(j) ==
    /\ fut[j] = "running"
    /\ pc[j] = "release"
    /\ rel' = LoopRelease(rel, j)
    /\ \/ /\ Raise(j, "release")
          /\ UNCHANGED << res, onboard_data, hist >>
       \/ /\ ~loc[j].sub
          /\ \E has_data \in BOOLEAN :
                /\ Return(j, [ret |-> loc[j].ret_val, data |-> WorldData(has_data)])
                /\ hist' = [hist EXCEPT ![j].hadData = has_data]
          /\ UNCHANGED << fail, onboard_data >>
       \/ /\ loc[j].sub
          /\ \E has_data \in BOOLEAN :
                /\ onboard_data' = [onboard_data EXCEPT ![j] = WorldData(has_data)]
                /\ hist' = [hist EXCEPT ![j].sawDone = FALSE, ![j].onbRuns = @ + 1,
                                        ![j].lastStep = Unbound,
                                        ![j].hadData = has_data]
          /\ loc' = [loc EXCEPT ![j].sub = FALSE, ![j].ret_val = Unbound]
          /\ pc' = [pc EXCEPT ![j] = "addpool"]
          /\ UNCHANGED << fut, res, fail >>
    /\ UNCHANGED << jobFrame, task_world, active, cycles >>

\* ---- launch_overworld._world_function ----

\* world_generator = get_world_fn_attr(...); overworld = world_generator(...)
\* (the overworld session is never stored in task.world)
OverworldConstruct(j) ==
    /\ fut[j] = "running"
    /\ pc[j] = "oconstruct"
    /\ \/ /\ args[j].world \notin KnownWorlds
          /\ Raise(j, "lookup")
       \/ /\ args[j].world \in KnownWorlds
          /\ Raise(j, "construct")
       \/ /\ args[j].world \in KnownWorlds
          /\ pc' = [pc EXCEPT ![j] = "ocheck"]
          /\ UNCHANGED << fut, fail, loc >>
    /\ UNCHANGED << jobFrame, task_world, res, active, onboard_data, rel,
                    cycles, hist >>

\* while not self.system_done
OverworldContinues == ~system_done

\* the while test; when it fails: return world_type, a NameError
\* (UnboundLocalError) when no parley() ever assigned it
OverworldCheck(j) ==
    /\ fut[j] = "running"
    /\ pc[j] = "ocheck"
    /\ IF OverworldContinues
       THEN /\ pc' = [pc EXCEPT ![j] = "oparley"]
            /\ UNCHANGED << fut, res, fail, loc >>
       ELSE IF loc[j].world_type = Unbound
            THEN Raise(j, "unbound") /\ UNCHANGED res
            ELSE Return(j, [ret |-> loc[j].world_type, data |-> Unbound])
                 /\ UNCHANGED fail
    /\ UNCHANGED << jobFrame, task_world, active, onboard_data, rel, cycles,
                    hist >>

\* a loop that takes a null route for a decision
NoDecisionNever(route) == FALSE

\* if world_type is None: time.sleep(0.5); continue
NoDecision(route) == route = None

\* a loop that skips onboarding
OnboardsNever(m, route) == FALSE

\* onboard_type = onboard_map.get(world_type); if onboard_type:
Onboards(m, route) == Truthy(DictGet(OnboardMaps[m], route))

\* what overworld.parley() may return: a route only while the bound allows
RouteChoices(j) == {None} \cup (IF cycles[j] < MaxCycles THEN Routes ELSE {})

NewCycle(h) ==
    [h EXCEPT !.onbRuns = 0, !.retOver = 0, !.poolArg = Unbound,
              !.hadData = Unbound]

\* world_type = overworld.parley() and the routing decision on it
OverworldParley(j) ==
    /\ fut[j] = "running"
    /\ pc[j] = "oparley"
    /\ \/ /\ Raise(j, "step")
          /\ UNCHANGED << cycles, hist >>
       \/ /\ \E route \in RouteChoices(j) :
               /\ loc' = [loc EXCEPT ![j].world_type = route]
               /\ IF NoDecision(route)
                  THEN /\ pc' = [pc EXCEPT ![j] = "ocheck"]
                       /\ UNCHANGED << cycles, hist >>
                  ELSE /\ pc' = [pc EXCEPT ![j] =
                                   IF Onboards(args[j].omap, route)
                                   THEN "ocreate" ELSE "addpool"]
                       /\ hist' = [hist EXCEPT ![j] = NewCycle(@)]
                       /\ cycles' = [cycles EXCEPT ![j] = @ + 1]
          /\ UNCHANGED << fut, fail >>
    /\ UNCHANGED << jobFrame, task_world, res, active, onboard_data, rel >>

\* agent = self.manager._create_agent(...); agent_state.set_active_agent(agent)
\* agent_state.assign_agent_to_task(agent, onboard_id); then _run_world(...)
OverworldCreateAgent(j) ==
    /\ fut[j] = "running"
    /\ pc[j] = "ocreate"
    /\ \/ /\ Raise(j, "manager")
          /\ UNCHANGED active
       \/ /\ active' = [active EXCEPT ![j] = "other"]
          /\ loc' = [loc EXCEPT ![j].sub = TRUE]
          /\ pc' = [pc EXCEPT ![j] = "construct"]
          /\ UNCHANGED << fut, fail >>
    /\ UNCHANGED << jobFrame, task_world, res, onboard_data, rel, cycles, hist >>

\* self.manager.add_agent_to_pool(agent_state, world_type); time.sleep(5)
OverworldAddToPool(j) ==
    /\ fut[j] = "running"
    /\ pc[j] = "addpool"
    /\ hist' = [hist EXCEPT ![j].poolArg = loc[j].world_type]
    /\ \/ Raise(j, "manager")
       \/ /\ pc' = [pc EXCEPT ![j] = "owait"]
          /\ UNCHANGED << fut, fail, loc >>
    /\ UNCHANGED << jobFrame, task_world, res, active, onboard_data, rel,
                    cycles >>

\* a loop that goes on to return_overworld without waiting for the hand-back
OverworldWaitNoPoll(j) ==
    /\ fut[j] = "running"
    /\ pc[j] = "owait"
    /\ pc' = [pc EXCEPT ![j] = "oretover"]
    /\ UNCHANGED << jobFrame, task_world, fut, res, fail, loopVars, active,
                    rel, hist >>

\* while agent_state.get_active_agent() != overworld_agent: time.sleep(2)
\* (a poll that finds another agent active changes nothing)
OverworldWait(j) ==
    /\ fut[j] = "running"
    /\ pc[j] = "owait"
    /\ active[j] = "over"
    /\ pc' = [pc EXCEPT ![j] = "oretover"]
    /\ UNCHANGED << jobFrame, task_world, fut, res, fail, loopVars, active,
                    rel, hist >>

\* overworld.return_overworld()
OverworldReturn(j) ==
    /\ fut[j] = "running"
    /\ pc[j] = "oretover"
    /\ hist' = [hist EXCEPT ![j].retOver = @ + 1]
    /\ pc' = [pc EXCEPT ![j] = "ocheck"]
    /\ UNCHANGED << jobFrame, task_world, fut, res, fail, loopVars, active, rel >>

\* the manager (another thread) assigns the participant's agent to a task
\* world, or hands the participant back to the overworld agent; the loop
\* reads the active agent only while it waits for the return
ManagerSetsActive(j, agent) ==
    /\ fut[j] = "running"
    /\ pc[j] \in {"owait", "oretover"}
    /\ active[j] # agent
    /\ active' = [active EXCEPT ![j] = agent]
    /\ UNCHANGED << jobFrame, task_world, fut, res, fail, pc, loopVars, rel, hist >>

\* ---- shutdown() (caller thread) ----

\* def shutdown(self): the iteration over self.tasks.items() begins
shutdown_call ==
    /\ main.pc = "idle"
    /\ shut.calls < MaxShutdowns
    /\ main' = [pc |-> "release", idx |-> 1]
    /\ shut' = [shut EXCEPT !.calls = @ + 1, !.last = "running"]
    /\ UNCHANGED << system_done, poolVars, registryVars, task_world, fut, res,
                    fail, pc, loopVars, active, rel, hist >>

\* the TaskState of the entry the iteration is at
PassEntry == tasks[task_order[main.idx]]

\* a pass that skips the sessions whose loop has ended
HasLiveWorld(j) == task_world[j] # -1 /\ fut[j] \notin {"result", "exception"}

\* if task.world is not None
HasWorld(j) == task_world[j] # -1

\* for _, task in self.tasks.items():
\*     if task.world is not None: task.world.shutdown()
\* a world.shutdown() that raises ends shutdown() there
shutdown_release ==
    /\ main.pc = "release"
    /\ main.idx <= Len(task_order)
    /\ IF ~HasWorld(PassEntry)
       THEN /\ main' = [main EXCEPT !.idx = @ + 1]
            /\ UNCHANGED << rel, shut >>
       ELSE /\ rel' = [rel EXCEPT ![PassEntry][task_world[PassEntry]].pass = @ + 1]
            /\ \/ /\ main' = [main EXCEPT !.idx = @ + 1]
                  /\ UNCHANGED shut
               \/ /\ main' = [pc |-> "idle", idx |-> 0]
                  /\ shut' = [shut EXCEPT !.last = "aborted"]
    /\ UNCHANGED << system_done, poolVars, registryVars, task_world, fut, res,
                    fail, pc, loopVars, active, hist >>

\* an executor shutdown that cancels the queued jobs (cancel_futures=True)
shutdown_cancels_queue ==
    /\ main.pc = "release"
    /\ main.idx > Len(task_order)
    /\ system_done' = TRUE
    /\ executor_shutdown' = TRUE
    /\ work_queue' = << >>
    /\ fut' = [j \in Jobs |-> IF fut[j] = "pending" THEN "cancelled" ELSE fut[j]]
    /\ pc' = [j \in Jobs |-> IF fut[j] = "pending" THEN "done" ELSE pc[j]]
    /\ main' = [pc |-> "join", idx |-> 0]
    /\ UNCHANGED << max_workers, registryVars, task_world, res, fail, loopVars,
                    active, shut, rel, hist >>

\* self.system_done = True; self.executor.shutdown() refuses new submissions
shutdown_set_flag ==
    /\ main.pc = "release"
    /\ main.idx > Len(task_order)
    /\ system_done' = TRUE
    /\ executor_shutdown' = TRUE
    /\ main' = [pc |-> "join", idx |-> 0]
    /\ UNCHANGED << max_workers, work_queue, registryVars, task_world, fut, res,
                    fail, pc, loopVars, active, shut, rel, hist >>

\* executor.shutdown(wait=False): return at once
ExecutorJoinedNoWait == TRUE

\* executor.shutdown(wait=True): every worker thread has been joined, which
\* happens once the queue is empty and no job is running
ExecutorJoined == Unfinished = {}

\* a shutdown() that clears the stop flag once the pool has drained
shutdown_return_resets ==
    /\ main.pc = "join"
    /\ Unfinished = {}
    /\ system_done' = FALSE
    /\ main' = [pc |-> "idle", idx |-> 0]
    /\ shut' = [shut EXCEPT !.returned = @ + 1, !.last = "returned"]
    /\ UNCHANGED << poolVars, registryVars, task_world, fut, res, fail, pc,
                    loopVars, active, rel, hist >>

\* self.executor.shutdown() returns, and with it shutdown()
shutdown_return ==
    /\ main.pc = "join"
    /\ ExecutorJoined
    /\ main' = [pc |-> "idle", idx |-> 0]
    /\ shut' = [shut EXCEPT !.returned = @ + 1, !.last = "returned"]
    /\ UNCHANGED << system_done, poolVars, registryVars, task_world, fut, res,
                    fail, pc, loopVars, active, rel, hist >>

\* ---- the system ----
JobStep(j) ==
    \/ RunWorldConstruct(j)
    \/ RunWorldCheck(j)
    \/ RunWorldParley(j)
    \/ RunWorldRelease(j)
    \/ OverworldConstruct(j)
    \/ OverworldCheck(j)
    \/ OverworldParley(j)
    \/ OverworldCreateAgent(j)
    \/ OverworldAddToPool(j)
    \/ OverworldWait(j)
    \/ OverworldReturn(j)

Next ==
    \/ \E n \in NameChoices, w \in TaskWorldNames : launch_task_world(n, w)
    \/ \E n \in NameChoices, w \in OverworldNames, m \in MapIds :
          launch_overworld(n, w, m)
    \/ \E n \in NameChoices, w \in OverworldNames, m \in MapIds :
          launch_overworld_fails(n, w, m)
    \/ WorkerStart
    \/ \E j \in Jobs : JobStep(j)
    \/ \E j \in Jobs, a \in {"over", "other"} : ManagerSetsActive(j, a)
    \/ shutdown_call
    \/ shutdown_release
    \/ shutdown_set_flag
    \/ shutdown_return

Spec == Init /\ [][Next]_vars

\* ---- properties ----
Finished(j) == fut[j] \in {"result", "exception"}
Started(j) == fut[j] \in {"running", "result", "exception"}
Submitted(j) == fut[j] # "none"

\* C1: in every state where a shutdown() call has returned, no job submitted
\* before it is still queued or running.
C1_ShutdownDrainsPool ==
    shut.returned > 0 => \A j \in Jobs : fut[j] \notin {"pending", "running"}

\* a shutdown() has returned after a job that the stop flag ended before its
\* first step, and a second submitted job has completed as well
C1_Witness ==
    /\ shut.returned > 0
    /\ \E j, k \in Jobs : /\ j # k
                          /\ fut[j] = "result" /\ res[j].ret = None
                          /\ Finished(k)

\* a step of job j that takes it out of its polling loop
LeavesLoop(j) == JobStep(j) /\ pc'[j] \in {"release", "done", "oretover"}

C3_ReleasedExactlyOnce ==
    \A j \in Jobs :
        hist[j].sawDone =>
            /\ pc[j] \in {"release", "done"}
            /\ args[j].kind = "task" =>
                  /\ Released(j, 0) <= 1
                  /\ pc[j] = "done" => Released(j, 0) = 1

\* C3 amended: once episode_done() has reported true the loop calls no
\* further step and terminates, and the loop itself invokes world.shutdown()
\* exactly once; each shutdown() call invokes it at most once more.
C3_LoopReleasesOnce ==
    \A j \in Jobs :
        hist[j].sawDone =>
            /\ pc[j] \in {"release", "done"}
            /\ args[j].kind = "task" =>
                  /\ rel[j][0].loop <= 1
                  /\ pc[j] = "done" => rel[j][0].loop = 1
                  /\ rel[j][0].pass <= shut.calls

\* a task world whose episode ended was released by its loop and, before
\* that, by a concurrent shutdown()
C3_Witness ==
    \E j \in Jobs :
        /\ args[j].kind = "task" /\ hist[j].sawDone /\ fut[j] = "result"
        /\ rel[j][0].loop = 1 /\ rel[j][0].pass = 1

\* C4 as stated: a world.shutdown() that fails in shutdown()'s release pass
\* is swallowed, so that every shutdown() call that has ended has set the
\* stop flag and drained the pool.
C4_ShutdownAlwaysProceeds ==
    (shut.calls > 0 /\ main.pc = "idle") =>
        /\ system_done
        /\ executor_shutdown
        /\ \A j \in Jobs : fut[j] \notin {"pending", "running"}

\* the launch calls made so far under task name n
LaunchesOf(n) == {j \in 1..launched : args[j].name = n}
Latest(S) == CHOOSE j \in S : \A k \in S : k <= j

\* C5: after two launches under one task name the registry holds one entry
\* for the name, that of the later launch; no job is cancelled, and a launch
\* leaves every earlier job's state, queue position and handle as they were.
C5_RelaunchKeepsFirstJob ==
    /\ [](\A n \in TaskNames :
             tasks[n] = IF LaunchesOf(n) = {} THEN 0 ELSE Latest(LaunchesOf(n)))
    /\ [](\A j \in Jobs : fut[j] # "cancelled")
    /\ [][launched' # launched =>
             /\ \A j \in 1..launched :
                   /\ fut'[j] = fut[j] /\ pc'[j] = pc[j]
                   /\ task_future'[j] = task_future[j]
                   /\ InSeq(j, work_queue) => InSeq(j, work_queue')
                   /\ res'[j] = res[j] /\ fail'[j] = fail[j]]_vars

\* two task worlds launched under one name: the entry is the second's, the
\* first job returned a result and the second failed on its own
C5_Witness ==
    /\ launched = 2
    /\ args[1].name = args[2].name
    /\ args[1].kind = "task" /\ args[2].kind = "task"
    /\ tasks[args[1].name] = 2
    /\ fut[1] = "result" /\ res[1].ret \in StepVals
    /\ fut[2] = "exception"

\* the step of job j that calls manager.add_agent_to_pool
AddsToPool(j) == pc[j] = "addpool" /\ pc'[j] # "addpool"

\* C6 as stated: when add_agent_to_pool is called, exactly one onboarding
\* loop has run to its end in this cycle if the route is a key of the
\* onboarding map, none if it is not, and the route is the argument.
C6_KeyedRouteOnboards ==
    [][\A j \in Jobs :
          AddsToPool(j) =>
             /\ hist[j].onbRuns =
                  IF loc[j].world_type \in DOMAIN OnboardMaps[args[j].omap]
                  THEN 1 ELSE 0
             /\ hist'[j].poolArg = loc[j].world_type]_vars

\* C6 amended: when add_agent_to_pool is called, exactly one onboarding loop
\* has run to its end in this cycle if the map gives the route a non-empty
\* onboarding kind, none otherwise (the route is no key, or its value is
\* None or empty), and the route is the argument.
C6_MappedRouteOnboards ==
    [][\A j \in Jobs :
          AddsToPool(j) =>
             /\ hist[j].onbRuns =
                  IF Truthy(DictGet(OnboardMaps[args[j].omap], loc[j].world_type))
                  THEN 1 ELSE 0
             /\ hist'[j].poolArg = loc[j].world_type]_vars

\* one overworld was added to the pool after its onboarding loop, another
\* with a route that is no key of the map and without onboarding
C6_Witness ==
    \E j, k \in Jobs :
        /\ pc[j] = "owait" /\ hist[j].poolArg = "a" /\ hist[j].onbRuns = 1
        /\ pc[k] = "owait" /\ hist[k].poolArg = "" /\ hist[k].onbRuns = 0

\* C7: the jobs whose closure has started and not returned never outnumber
\* max_workers; an onboarding sub-loop runs inside its overworld's running
\* job; with max_workers = 1 a later job starts only after every earlier
\* submitted job has completed.
C7_PoolBoundsRunningJobs ==
    /\ Cardinality({j \in Jobs : fut[j] = "running"}) <= max_workers
    /\ \A j \in Jobs : loc[j].sub => fut[j] = "running"
    /\ max_workers = 1 =>
          \A j, k \in Jobs :
              (j < k /\ Submitted(j) /\ Started(k)) => Finished(j)

\* one worker: the second task world has constructed its session after the
\* first job completed
C7_Witness ==
    /\ max_workers = 1
    /\ args[1].kind = "task" /\ args[2].kind = "task"
    /\ fut[1] = "result" /\ fut[2] = "running" /\ task_world[2] = 0

\* what a no-decision step must leave alone: manager calls, onboarding
\* sessions, return_overworld calls, the agent state
CycleState(j) == << hist[j], active[j], onboard_data[j], task_world[j], cycles[j] >>

\* C8 as stated: a supervisory step that returns an empty or null route
\* changes nothing and the loop re-polls: no manager call, no onboarding
\* session and no return_overworld until a later step returns a route.
C8_EmptyOrNullRouteRepolls ==
    /\ [](\A j \in Jobs : loc[j].world_type \in {None, ""}
                            => pc[j] \in {"ocheck", "oparley"})
    /\ [][\A j \in Jobs : loc'[j].world_type \in {None, ""}
                            => CycleState(j)' = CycleState(j)]_vars

\* C8 amended: the same for a null (None) route only; an empty string is a
\* route like any other.
C8_NullRouteRepolls ==
    /\ [](\A j \in Jobs : loc[j].world_type = None
                            => pc[j] \in {"ocheck", "oparley"})
    /\ [][\A j \in Jobs : loc'[j].world_type = None
                            => CycleState(j)' = CycleState(j)]_vars

\* an overworld loop is polling again after a null route, no manager call made
C8_Witness ==
    \E j \in Jobs :
        /\ loc[j].world_type = None /\ pc[j] = "oparley"
        /\ hist[j].poolArg = Unbound /\ cycles[j] = 0

FailureKinds == {"lookup", "construct", "step", "manager"}
JobState(j) == << fut[j], res[j], fail[j], pc[j], loc[j], task_world[j] >>

C10_ExitReturnsLastRoute ==
    [][\A j \in Jobs :
          (pc[j] = "ocheck" /\ pc'[j] = "done") =>
             /\ system_done
             /\ fut'[j] = "result"
             /\ res'[j].ret = loc[j].world_type]_vars

\* a step of a shutdown() call made after an earlier call returned
SecondCallStep == shut.returned >= 1 /\ main.pc # "idle"

\* such a step leaves the stop flag, the registry and every handle as they are
SecondCallKeeps ==
    /\ system_done /\ system_done'
    /\ tasks' = tasks /\ task_order' = task_order
    /\ task_future' = task_future
    /\ fut' = fut /\ res' = res /\ fail' = fail

\* C11 as stated: a shutdown() call made after an earlier shutdown() has
\* returned issues no world.shutdown() to any session, and leaves the stop
\* flag, the registry and every handle's outcome unchanged.
C11_SecondPassIsNoOp ==
    [][SecondCallStep => (SecondCallKeeps /\ rel' = rel)]_vars

\* C11 amended: a shutdown() call made after an earlier shutdown() has
\* returned leaves the stop flag, the registry and every handle's outcome
\* unchanged, and its release pass calls world.shutdown() once more on the
\* session stored in each registry entry it visits (and on no other).
C11_SecondPassReleasesAgain ==
    [][SecondCallStep =>
          /\ SecondCallKeeps
          /\ (main.pc = "release" /\ main.idx <= Len(task_order)) =>
                \A j \in Jobs, c \in 0..MaxCycles :
                    /\ rel'[j][c].loop = rel[j][c].loop
                    /\ rel'[j][c].pass = rel[j][c].pass +
                          (IF j = tasks[task_order[main.idx]] /\ task_world[j] = c
                           THEN 1 ELSE 0)
          /\ ~(main.pc = "release" /\ main.idx <= Len(task_order)) => rel' = rel]_vars

\* two shutdown() calls have returned; a task world that its loop released
\* was released again by each call's pass, the second after the job had ended
C11_Witness ==
    /\ shut.returned = 2
    /\ \E j \in Jobs : /\ args[j].kind = "task" /\ fut[j] = "result"
                       /\ rel[j][0].loop = 1 /\ rel[j][0].pass = 2

\* C12: system_done is false at construction; a step changes it only from
\* false to true, and only shutdown()'s assignment does; once true it stays
\* true; no launch and no step of a job's loop changes it.
C12_StopFlagSetOnceByShutdown ==
    /\ ~system_done
    /\ [][/\ system_done => system_done'
          /\ system_done' # system_done =>
                (main.pc = "release" /\ main'.pc = "join")
          /\ (launched' # launched \/ pc' # pc \/ fut' # fut) =>
                system_done' = system_done]_vars

\* the flag is true after a loop read it and ended, a launch made after the
\* first shutdown() was refused, and a second shutdown() has assigned it again
C12_Witness ==
    /\ system_done
    /\ shut.returned = 1 /\ main.pc = "join"
    /\ launched = 2
    /\ fut[1] = "result" /\ res[1].ret = None
    /\ args[2].kind = "task" /\ fut[2] = "none"

\* the result of the last step the loop executed, None when it executed none
LastStepOrNone(j) ==
    IF hist[j].lastStep = Unbound THEN None ELSE hist[j].lastStep

\* the session's data attribute if it has one, an empty mapping otherwise
Payload(j) == IF hist[j].hadData THEN "data" ELSE "empty"

\* C13 as stated: a task-world job whose loop entered DONE and returned has
\* released its session, and its handle holds (result of the last step,
\* payload), the first component being None exactly when no step was executed.
C13_NullIffNoStep ==
    \A j \in Jobs :
        (args[j].kind = "task" /\ fut[j] = "result") =>
            /\ rel[j][0].loop = 1
            /\ res[j] = [ret |-> LastStepOrNone(j), data |-> Payload(j)]
            /\ res[j].ret = None <=> hist[j].lastStep = Unbound

\* C13 amended: a task-world job whose loop entered DONE and returned has
\* released its session, and its handle holds (result of the last step,
\* payload), the first component being None when no step was executed (and
\* also when the last step returned None); a loop whose release raised holds
\* that failure instead.
C13_DoneReturnsLastStep ==
    \A j \in Jobs :
        args[j].kind = "task" =>
            /\ fut[j] = "result" =>
                  /\ rel[j][0].loop = 1
                  /\ res[j] = [ret |-> LastStepOrNone(j), data |-> Payload(j)]
                  /\ hist[j].lastStep = Unbound => res[j].ret = None
            /\ (Finished(j) /\ rel[j][0].loop >= 1) =>
                  (fut[j] = "result" \/ fail[j] = "release")

\* task-world job j returned (ret, data) after a last step result of last
PairResult(j, last, ret, data) ==
    /\ args[j].kind = "task" /\ fut[j] = "result"
    /\ hist[j].lastStep = last
    /\ res[j] = [ret |-> ret, data |-> data]

\* one loop executed no step on a session with a data attribute; another
\* loop's last step returned None on a session without one
C13_Witness ==
    \E j, k \in Jobs :
        /\ PairResult(j, Unbound, None, "data")
        /\ PairResult(k, None, None, "empty")

\* job j has not constructed the session of its own loop yet
NotConstructed(j) ==
    \/ fut[j] \in {"none", "pending"}
    \/ fut[j] = "running" /\ pc[j] = "oconstruct"
    \/ fut[j] = "running" /\ pc[j] = "construct" /\ ~loc[j].sub

\* job j's loop is running on the session it constructed (session 0 of the
\* job: a task world's session, an overworld's supervisory session)
OwnSessionLive(j) == fut[j] = "running" /\ ~NotConstructed(j)

\* job j is inside an onboarding run of _run_world, past its construction
InOnboarding(j) == loc[j].sub /\ pc[j] \in {"check", "parley", "release"}

ReturnsOverworld(j) == pc[j] = "oretover" /\ pc'[j] # "oretover"

\* return_overworld() is called at most once in a cycle, after the cycle's
\* add_agent_to_pool, and once before the loop test that follows the cycle
OncePerCycle ==
    /\ [](\A j \in Jobs :
             /\ hist[j].retOver <= 1
             /\ (cycles[j] >= 1 /\ pc[j] \in {"ocheck", "oparley"}) =>
                   hist[j].retOver = 1)
    /\ [][\A j \in Jobs :
             ReturnsOverworld(j) =>
                /\ hist[j].retOver = 0 /\ hist'[j].retOver = 1
                /\ hist[j].poolArg = loc[j].world_type
                /\ loc[j].world_type \in Routes
                /\ pc'[j] = "ocheck"]_vars

\* C15 as stated: return_overworld() is called only in a state where the
\* participant's active agent is the supervising agent, exactly once per
\* cycle, after the cycle's add_agent_to_pool and before the next step.
C15_ReturnOnlyWhenActive ==
    /\ OncePerCycle
    /\ [][\A j \in Jobs : ReturnsOverworld(j) => active[j] = "over"]_vars

\* C15 amended: return_overworld() is called only after a poll of the cycle
\* found the participant's active agent to be the supervising agent (the
\* manager may have reassigned the participant by the time of the call),
\* exactly once per cycle that reaches the next supervisory step, after the
\* cycle's add_agent_to_pool.
C15_ReturnAfterPoll ==
    /\ OncePerCycle
    /\ [][\A j \in Jobs :
             pc'[j] = "oretover" =>
                \/ pc[j] = "oretover"
                \/ pc[j] = "owait" /\ active[j] = "over"]_vars

\* an overworld polls again after a cycle with onboarding in which it called
\* return_overworld() although the manager had reassigned the participant
C15_Witness ==
    \E j \in Jobs :
        /\ pc[j] = "oparley" /\ cycles[j] = 1
        /\ hist[j].poolArg = "a" /\ hist[j].onbRuns = 1 /\ hist[j].retOver = 1
        /\ active[j] = "other"

\* C16: the queue holds exactly the submitted jobs that have not started, in
\* the order of their submission; a job starts only from the head of the
\* queue, so a job submitted later never starts while a job submitted
\* earlier is still queued.
C16_QueueIsFifo ==
    /\ [](/\ {work_queue[i] : i \in DOMAIN work_queue}
               = {j \in Jobs : fut[j] = "pending"}
          /\ \A i, k \in DOMAIN work_queue : i < k => work_queue[i] < work_queue[k]
          /\ \A j, k \in Jobs :
                (j < k /\ fut[j] = "pending") => ~Started(k))
    /\ [][\A j \in Jobs :
             (fut[j] = "pending" /\ fut'[j] # "pending") =>
                /\ fut'[j] = "running"
                /\ j = Head(work_queue)
                /\ work_queue' = Tail(work_queue)]_vars

\* one worker and two launches: the first job runs, the second waits queued
C16_Witness ==
    /\ max_workers = 1
    /\ launched = 2
    /\ fut[1] = "running" /\ pc[1] = "parley"
    /\ fut[2] = "pending" /\ work_queue = << 2 >>

\* C17 as stated: no session's parley() is called after that session's
\* world.shutdown() has been invoked, by its loop or by a shutdown() pass.
C17_NoStepAfterRelease ==
    [][\A j \in Jobs :
          (pc[j] = "parley" /\ pc'[j] # "parley") =>
              Released(j, CurSession(j)) = 0]_vars

\* C18 as stated: a task-world job that has finished, with a result or with
\* a failure raised by a step, has had world.shutdown() invoked on the
\* session its loop constructed.
C18_FinishedLoopReleased ==
    \A j \in Jobs :
        (args[j].kind = "task" /\ task_world[j] = 0 /\ Finished(j)
            /\ fail[j] \in {"none", "step"}) =>
                Released(j, 0) >= 1

\* C19 as stated: a launch call that fails (the pool refuses the submission,
\* or manager.get_agent_state raises) leaves the registry unchanged, and so
\* every registry entry has a handle.
C19_FailedLaunchLeavesRegistry ==
    /\ [](\A n \in TaskNames : tasks[n] # 0 => task_future[tasks[n]])
    /\ [][(launched' # launched /\ fut'[launched'] = "none") =>
             (tasks' = tasks /\ task_order' = task_order)]_vars

\* a task-world job that was queued when the stop flag was set: its closure
\* started with the flag already true
LateTask(j) == args[j].kind = "task" /\ hist[j].lateStart

\* C20: a task-world job still queued when the stop flag is set stays queued
\* until a worker takes it (no step, that of shutdown() included, removes a
\* queued job), and shutdown() does not return before it has finished; once started it calls no step; if its session is constructed
\* the loop releases it exactly once, nothing else releases it before
\* shutdown() returns, and the handle resolves to (None, payload); it fails
\* only if the lookup, the construction or the release fails.
C20_QueuedJobStillRuns ==
    /\ [](\A j \in Jobs :
             /\ (system_done /\ fut[j] = "pending") =>
                   (main.pc = "join" /\ InSeq(j, work_queue))
             /\ LateTask(j) =>
                   /\ pc[j] # "parley" /\ hist[j].lastStep = Unbound
                   /\ rel[j][0].loop <= 1
                   /\ shut.returned = 0 => rel[j][0].pass = 0
                   /\ pc[j] \in {"check", "release"} => task_world[j] = 0
                   /\ fut[j] = "result" =>
                         /\ res[j] = [ret |-> None, data |-> Payload(j)]
                         /\ rel[j][0].loop = 1
                   /\ fut[j] = "exception" =>
                         fail[j] \in {"lookup", "construct", "release"}
                   /\ shut.returned >= 1 => Finished(j))
    /\ [][\A j \in Jobs :
             fut[j] = "pending" => fut'[j] \in {"pending", "running"}]_vars

\* shutdown() has returned after a task world that started with the flag
\* set: no step, one release by its loop, the handle holds (None, payload)
C20_Witness ==
    \E j \in Jobs :
        /\ LateTask(j) /\ shut.returned = 1 /\ shut.calls = 1
        /\ fut[j] = "result" /\ res[j].ret = None
        /\ rel[j][0] = [loop |-> 1, pass |-> 0]
====
